---- MODULE Spec2Model ----
(***************************************************************************)
(* Model of the order orchestration workflow of lib/agents.py:             *)
(* Orchestrator.extract_order and Orchestrator.process_order_details, with *)
(* the three collaborators (inventory, quote_management, sales) as the     *)
(* environment that answers each blocking run() call with a reply or a     *)
(* raised exception.  Texts are TLA+ strings handled character by          *)
(* character, as the Python string and regex operations handle them.       *)
(***************************************************************************)
EXTENDS Integers, Sequences, FiniteSets, TLC

(***************************************************************************)
(* Bounds of the model.                                                    *)
(***************************************************************************)
\* largest number of text segments (lines) in a generated request
MaxLines == 2

MaxRequests == 2

MaxRows == 2

(***************************************************************************)
(* Python str operations.                                                  *)
(***************************************************************************)
Ch(s, i) == SubSeq(s, i, i)

MinOf(S) == CHOOSE m \in S : \A k \in S : m <= k

StartsWithAt(s, p, i) ==
    /\ i >= 1
    /\ i + Len(p) - 1 <= Len(s)
    /\ SubSeq(s, i, i + Len(p) - 1) = p

\* str.find from position i (1-based); 0 when p does not occur
Find(s, p, i) ==
    LET J == {j \in i..(Len(s) - Len(p) + 1) : StartsWithAt(s, p, j)}
    IN  IF J = {} THEN 0 ELSE MinOf(J)

\* the Python operator: p in s
Contains(s, p) == Find(s, p, 1) # 0

Digits == "0123456789"

LowerCh(c) ==
    CASE c = "A" -> "a"  [] c = "B" -> "b"  [] c = "C" -> "c"
      [] c = "D" -> "d"  [] c = "E" -> "e"  [] c = "F" -> "f"
      [] c = "G" -> "g"  [] c = "H" -> "h"  [] c = "I" -> "i"
      [] c = "J" -> "j"  [] c = "K" -> "k"  [] c = "L" -> "l"
      [] c = "M" -> "m"  [] c = "N" -> "n"  [] c = "O" -> "o"
      [] c = "P" -> "p"  [] c = "Q" -> "q"  [] c = "R" -> "r"
      [] c = "S" -> "s"  [] c = "T" -> "t"  [] c = "U" -> "u"
      [] c = "V" -> "v"  [] c = "W" -> "w"  [] c = "X" -> "x"
      [] c = "Y" -> "y"  [] c = "Z" -> "z"
      [] OTHER -> c

RECURSIVE LowerFrom(_, _)
LowerFrom(s, i) ==
    IF i > Len(s) THEN "" ELSE LowerCh(Ch(s, i)) \o LowerFrom(s, i + 1)

\* str.lower
Lower(s) == LowerFrom(s, 1)

IsSpace(c) == c \in {" ", "\n", "\t", "\r"}
IsDigit(c) == c \in {"0", "1", "2", "3", "4", "5", "6", "7", "8", "9"}

\* str.strip
Strip(s) ==
    LET K == {k \in 1..Len(s) : ~IsSpace(Ch(s, k))}
    IN  IF K = {} THEN ""
        ELSE SubSeq(s, MinOf(K), CHOOSE m \in K : \A k \in K : k <= m)

\* s.split(sep)[0]
SplitFirst(s, sep) ==
    LET j == Find(s, sep, 1)
    IN  IF j = 0 THEN s ELSE SubSeq(s, 1, j - 1)

\* s.split(sep)[1], for s that contains sep: the text between the first
\* occurrence of sep and the next one (or the end)
SplitSecond(s, sep) ==
    LET j == Find(s, sep, 1)
        b == j + Len(sep)
        e == Find(s, sep, b)
    IN  IF e = 0 THEN SubSeq(s, b, Len(s)) ELSE SubSeq(s, b, e - 1)

\* s.split(sep): every piece, empty ones included
RECURSIVE SplitOn(_, _, _)
SplitOn(s, sep, i) ==
    LET j == Find(s, sep, i)
    IN  IF j = 0 THEN <<SubSeq(s, i, Len(s))>>
        ELSE <<SubSeq(s, i, j - 1)>> \o SplitOn(s, sep, j + Len(sep))

\* s.split(): the maximal runs of non-whitespace characters
RECURSIVE WordsFrom(_, _)
WordsFrom(s, i) ==
    LET B == {k \in i..Len(s) : ~IsSpace(Ch(s, k))}
    IN  IF B = {} THEN <<>>
        ELSE LET b == MinOf(B)
                 E == {k \in b..Len(s) : IsSpace(Ch(s, k))}
                 e == IF E = {} THEN Len(s) + 1 ELSE MinOf(E)
             IN  <<SubSeq(s, b, e - 1)>> \o WordsFrom(s, e)

Words(s) == WordsFrom(s, 1)

\* sep.join(parts)
RECURSIVE Join(_, _)
Join(sep, parts) ==
    IF parts = <<>> THEN ""
    ELSE IF Len(parts) = 1 THEN parts[1]
    ELSE parts[1] \o sep \o Join(sep, Tail(parts))

\* int(digits)
RECURSIVE ToInt(_, _)
ToInt(s, n) ==
    IF n = 0 THEN 0
    ELSE 10 * ToInt(s, n - 1)
         + (CHOOSE d \in 0..9 : Ch(Digits, d + 1) = Ch(s, n))

\* number of leading characters of s from position i that satisfy \d
RECURSIVE DigitRun(_, _)
DigitRun(s, i) ==
    IF i <= Len(s) /\ IsDigit(Ch(s, i)) THEN 1 + DigitRun(s, i + 1) ELSE 0

\* number of leading characters of s from position i that satisfy \s
RECURSIVE SpaceRun(_, _)
SpaceRun(s, i) ==
    IF i <= Len(s) /\ IsSpace(Ch(s, i)) THEN 1 + SpaceRun(s, i + 1) ELSE 0

(***************************************************************************)
(* extract_order.                                                          *)
(***************************************************************************)
DateMarker == "(Date of request:"

\* the regex \(Date of request:\s*(\d{4}-\d{2}-\d{2})\) matched at position
\* i: the position of the captured date, or 0
DateMatchAt(s, i) ==
    IF ~StartsWithAt(s, DateMarker, i) THEN 0
    ELSE LET d == i + Len(DateMarker) + SpaceRun(s, i + Len(DateMarker))
         IN  IF /\ d + 10 <= Len(s)
                /\ \A k \in {0, 1, 2, 3, 5, 6, 8, 9} : IsDigit(Ch(s, d + k))
                /\ Ch(s, d + 4) = "-"
                /\ Ch(s, d + 7) = "-"
                /\ Ch(s, d + 10) = ")"
             THEN d ELSE 0

\* re.search(...).group(1), or "" without a match
request_date_str(request) ==
    LET M == {i \in 1..Len(request) : DateMatchAt(request, i) # 0}
    IN  IF M = {} THEN ""
        ELSE LET d == DateMatchAt(request, MinOf(M))
             IN  SubSeq(request, d, d + 9)

\* the text cut only where the date regex matches
request_text_matched(request) ==
    LET M == {i \in 1..Len(request) : DateMatchAt(request, i) # 0}
    IN  IF M = {} THEN request ELSE SubSeq(request, 1, MinOf(M) - 1)

\* line 79: the text before the date annotation
request_text(request) ==
    IF Contains(request, DateMarker) THEN SplitFirst(request, DateMarker)
    ELSE request

units == <<"sheets", "packets", "reams", "table napkins", "poster boards",
           "cards", "rolls">>

\* item_pattern matched at position i: the match as a record, ok = FALSE
\* when the pattern does not match there
ItemMatchAt(s, i) ==
    LET nd == DigitRun(s, i + 2)
        u0 == i + 2 + nd + 1
        U  == {k \in 1..Len(units) : StartsWithAt(s, units[k], u0)}
        ul == IF U = {} THEN 0 ELSE Len(units[MinOf(U)])
        d0 == u0 + ul + 4
        NL == {k \in d0..Len(s) : Ch(s, k) = "\n"}
        e  == IF NL = {} THEN Len(s) + 1 ELSE MinOf(NL)
        ok == /\ StartsWithAt(s, "- ", i)
              /\ nd >= 1
              /\ StartsWithAt(s, " ", i + 2 + nd)
              /\ U # {}
              /\ StartsWithAt(s, " of ", u0 + ul)
              /\ e > d0
    IN  [ok |-> ok,
         quantity |-> IF ok THEN SubSeq(s, i + 2, i + 1 + nd) ELSE "",
         description |-> IF ok THEN SubSeq(s, d0, e - 1) ELSE "",
         end |-> IF ok THEN (IF e <= Len(s) THEN e + 1 ELSE e) ELSE 0]

\* re.findall(item_pattern, s): the non-overlapping matches, left to right
RECURSIVE FindAllItems(_, _)
FindAllItems(s, i) ==
    LET M == {k \in i..Len(s) : ItemMatchAt(s, k).ok}
    IN  IF M = {} THEN <<>>
        ELSE LET m == ItemMatchAt(s, MinOf(M))
             IN  <<m>> \o FindAllItems(s, m.end)

\* the classification without lower(): capitals go unnoticed
item_type_cased(description) ==
    IF Contains(description, "paper") \/ Contains(description, "cardstock")
    THEN "paper" ELSE "product"

\* line 90
item_type(description) ==
    IF Contains(Lower(description), "paper")
       \/ Contains(Lower(description), "cardstock")
    THEN "paper" ELSE "product"

extract_order(request) ==
    LET matches == FindAllItems(request_text(request), 1)
    IN  [order |-> [k \in 1..Len(matches) |->
                      [quantity |-> ToInt(matches[k].quantity,
                                          Len(matches[k].quantity)),
                       name |-> Strip(matches[k].description),
                       type |-> item_type(matches[k].description)]],
         request_date |-> request_date_str(request)]

(***************************************************************************)
(* Python values handed back by a collaborator: None, bool, number, str,   *)
(* list and dict, and json.loads over the str ones.                        *)
(***************************************************************************)
PyNone == [t |-> "none"]
PyBool(b) == [t |-> "bool", b |-> b]
PyNum(lit) == [t |-> "num", lit |-> lit]
PyStr(s) == [t |-> "str", s |-> s]
PyList(items) == [t |-> "list", items |-> items]
\* a dict as the sequence of its (key, value) pairs in insertion order
PyDict(pairs) == [t |-> "dict", pairs |-> pairs]

JsonFail == [ok |-> FALSE, v |-> PyNone, next |-> 0]
JsonOk(v, next) == [ok |-> TRUE, v |-> v, next |-> next]

SkipWs(s, i) == i + SpaceRun(s, i)

\* repr of the number a JSON literal denotes, for the literals
\* -?digits(.digits)? : a float loses the trailing zeros of its fraction
NumRepr(lit) ==
    LET dot == Find(lit, ".", 1)
    IN  IF dot = 0 THEN lit
        ELSE LET K == {k \in (dot + 1)..Len(lit) : Ch(lit, k) # "0"}
                 last == IF K = {} THEN dot + 1
                         ELSE CHOOSE m \in K : \A k \in K : k <= m
             IN  SubSeq(lit, 1, last)

ParseNumber(s, i) ==
    LET b  == IF StartsWithAt(s, "-", i) THEN i + 1 ELSE i
        nd == DigitRun(s, b)
        fr == IF StartsWithAt(s, ".", b + nd) THEN DigitRun(s, b + nd + 1)
              ELSE 0
        e  == IF fr > 0 THEN b + nd + 1 + fr ELSE b + nd
    IN  IF nd = 0 \/ (nd > 1 /\ Ch(s, b) = "0") THEN JsonFail
        ELSE JsonOk(PyNum(NumRepr(SubSeq(s, i, e - 1))), e)

\* a string without escapes
ParseString(s, i) ==
    LET q == Find(s, "\"", i + 1)
    IN  IF ~StartsWithAt(s, "\"", i) \/ q = 0
           \/ Contains(SubSeq(s, i + 1, q - 1), "\\") THEN JsonFail
        ELSE JsonOk(PyStr(SubSeq(s, i + 1, q - 1)), q + 1)

RECURSIVE ParseValue(_, _), ParseElements(_, _, _), ParseMembers(_, _, _)

ParseValue(s, i) ==
    IF i > Len(s) THEN JsonFail
    ELSE IF StartsWithAt(s, "null", i) THEN JsonOk(PyNone, i + 4)
    ELSE IF StartsWithAt(s, "true", i) THEN JsonOk(PyBool(TRUE), i + 4)
    ELSE IF StartsWithAt(s, "false", i) THEN JsonOk(PyBool(FALSE), i + 5)
    ELSE IF Ch(s, i) = "\"" THEN ParseString(s, i)
    ELSE IF Ch(s, i) = "[" THEN
        IF StartsWithAt(s, "]", SkipWs(s, i + 1))
        THEN JsonOk(PyList(<<>>), SkipWs(s, i + 1) + 1)
        ELSE ParseElements(s, SkipWs(s, i + 1), <<>>)
    ELSE IF Ch(s, i) = "{" THEN
        IF StartsWithAt(s, "}", SkipWs(s, i + 1))
        THEN JsonOk(PyDict(<<>>), SkipWs(s, i + 1) + 1)
        ELSE ParseMembers(s, SkipWs(s, i + 1), <<>>)
    ELSE ParseNumber(s, i)

\* value (, value)* ] from position i, after the elements acc
ParseElements(s, i, acc) ==
    LET r == ParseValue(s, i)
        j == SkipWs(s, r.next)
    IN  IF ~r.ok THEN JsonFail
        ELSE IF StartsWithAt(s, "]", j)
             THEN JsonOk(PyList(Append(acc, r.v)), j + 1)
        ELSE IF StartsWithAt(s, ",", j)
             THEN ParseElements(s, SkipWs(s, j + 1), Append(acc, r.v))
        ELSE JsonFail

\* "key" : value (, "key" : value)* } from position i, after the pairs acc
ParseMembers(s, i, acc) ==
    LET k == ParseString(s, i)
        c == SkipWs(s, k.next)
        r == ParseValue(s, SkipWs(s, c + 1))
        j == SkipWs(s, r.next)
    IN  IF ~k.ok \/ ~StartsWithAt(s, ":", c) THEN JsonFail
        ELSE IF ~r.ok THEN JsonFail
        ELSE IF StartsWithAt(s, "}", j)
             THEN JsonOk(PyDict(Append(acc, <<k.v.s, r.v>>)), j + 1)
        ELSE IF StartsWithAt(s, ",", j)
             THEN ParseMembers(s, SkipWs(s, j + 1),
                               Append(acc, <<k.v.s, r.v>>))
        ELSE JsonFail

\* json.loads(s): ok = FALSE stands for json.JSONDecodeError
json_loads(s) ==
    LET r == ParseValue(s, SkipWs(s, 1))
    IN  IF r.ok /\ SkipWs(s, r.next) > Len(s) THEN r ELSE JsonFail

\* dict.get(key, default); of equal keys the last one counts
DictGet(d, key, default) ==
    LET K == {k \in 1..Len(d.pairs) : d.pairs[k][1] = key}
    IN  IF K = {} THEN default
        ELSE d.pairs[CHOOSE m \in K : \A k \in K : k <= m][2]

\* bool(v), as the conditional expression evaluates it
Truthy(v) ==
    CASE v.t = "none" -> FALSE
      [] v.t = "bool" -> v.b
      [] v.t = "num"  -> \E k \in 1..Len(v.lit) : Ch(v.lit, k) \in
                           {"1", "2", "3", "4", "5", "6", "7", "8", "9"}
      [] v.t = "str"  -> v.s # ""
      [] v.t = "list" -> v.items # <<>>
      [] v.t = "dict" -> v.pairs # <<>>

\* str(v) as an f-string renders it, for the values a price can take
Render(v) ==
    CASE v.t = "none" -> "None"
      [] v.t = "bool" -> IF v.b THEN "True" ELSE "False"
      [] v.t = "num"  -> v.lit
      [] v.t = "str"  -> v.s
      [] OTHER        -> "<object>"

(***************************************************************************)
(* The catalog and the texts process_order_details works with.             *)
(***************************************************************************)
\* the ambient catalog the per-line validation reads
paper_supplies == <<[item_name |-> "A4 paper"], [item_name |-> "Cardstock"]>>

\* lines 144-150: some word of the product occurs in some catalog name
CatalogMatch(product) ==
    \E w \in 1..Len(Words(Strip(product))) :
        \E d \in 1..Len(paper_supplies) :
            Contains(Lower(paper_supplies[d].item_name),
                     Lower(Words(Strip(product))[w]))

CatalogNames ==
    Join(", ", [d \in 1..Len(paper_supplies) |-> paper_supplies[d].item_name])

ShortageTerms == {"not enough", "insufficient", "low", "out of", "don't have"}

\* the shortage scan without lower(): a reply in capitals goes unnoticed
inventory_issue_cased(response) ==
    \E term \in ShortageTerms : Contains(response, term)

\* lines 176-177
inventory_issue(response) ==
    \E term \in ShortageTerms : Contains(Lower(response), term)

MissingMarker == "MISSING ITEMS:"

\* the entries after the marker with the empty ones kept
ParseMissingItems_keepempty(response) ==
    LET parts == SplitOn(SplitSecond(response, MissingMarker), ",", 1)
    IN  [k \in 1..Len(parts) |-> Strip(parts[k])]

\* lines 185-187: the stripped non-empty entries after the marker
ParseMissingItems(response) ==
    LET parts == SplitOn(SplitSecond(response, MissingMarker), ",", 1)
    IN  SelectSeq([k \in 1..Len(parts) |-> Strip(parts[k])],
                  LAMBDA item : item # "")

\* lines 196-199
DetailLine(item) ==
    "- " \o ToString(item.quantity) \o " "
    \o (IF item.type = "paper" THEN "sheets" ELSE item.type)
    \o " of Item: " \o item.name

Details(lines) == Join("\n", [k \in 1..Len(lines) |-> DetailLine(lines[k])])

\* the MISSING ITEMS line without the test for the local being bound
MissingText_unguarded(missing) == Join(", ", missing.items)

\* lines 209 and 259: the MISSING ITEMS line of an instruction
MissingText(missing) ==
    IF missing.bound THEN Join(", ", missing.items) ELSE "None"

\* the order detail block falling back to the request with its date
OrderDetail_undated(lines, request) ==
    IF Details(lines) # "" THEN Details(lines) ELSE request

\* lines 212 and 256: the order detail block of an instruction
OrderDetail(lines, request) ==
    IF Details(lines) # "" THEN Details(lines)
    ELSE SplitFirst(request, DateMarker)

\* line 261: the discount wording of the sales instruction
DiscountWord(b) == IF Truthy(b) THEN "no" ELSE "a"

(***************************************************************************)
(* What the environment can hand to the orchestrator.                      *)
(***************************************************************************)
Segments ==
    {"- 5 sheets of A4 paper", "- 2 rolls of Card boxes",
     "- 7 packets of ink", "please hurry"}

DateSuffixes == {"", " (Date of request: 2025-04-01)"}

RequestTexts ==
    {Join("\n", segs) \o suffix :
        segs \in UNION {[1..n -> Segments] : n \in 0..MaxLines},
        suffix \in DateSuffixes}

\* texts the Inventory Collaborator may answer with
InventoryReplies ==
    {"In stock.", "Stock is LOW, reordered.",
     "Checked.\nMISSING ITEMS: a, b", "MISSING ITEMS: , "}

FullQuote ==
    PyDict(<< <<"final_total_price", PyNum("42.5")>>,
              <<"bulk_discount_applied", PyBool(TRUE)>> >>)

\* values the Quoting Collaborator may answer with
QuoteReplies ==
    {FullQuote,
     PyDict(<< <<"final_total_price", PyNum("10")>>,
               <<"bulk_discount_applied", PyBool(FALSE)>> >>),
     PyDict(<<>>),
     PyStr("{\"final_total_price\": 42.50, \"bulk_discount_applied\": true}"),
     PyStr("{\"bulk_discount_applied\": false}"),
     PyStr("The total is 42.5"),
     PyStr("5"),
     PyStr("null"),
     PyStr("[1]"),
     PyNone}

\* texts the Sales Collaborator may answer with
SalesReplies == {"Order confirmed.", "Delivery on 2025-04-08."}

(***************************************************************************)
(* The tools each collaborator is constructed with, and the transaction    *)
(* table the recording tools of lib/tools.py write to.                     *)
(***************************************************************************)
\* an Inventory Collaborator built as its description words it ("Check
\* stock levels, reorder stock levels, and sell items")
InventoryAgent_tools_selling ==
    {"get_inventory_level", "reorder_inventory_item", "sell_inventory_item"}

InventoryAgent_tools == {"get_inventory_level", "reorder_inventory_item"}

QuoteManagementAgent_tools == {"get_discount_info", "get_item_price"}

SalesFinalizationAgent_tools ==
    {"sell_inventory_item", "check_delivery_timeline"}

AgentTools(agent) ==
    CASE agent = "inventory" -> InventoryAgent_tools
      [] agent = "quote_management" -> QuoteManagementAgent_tools
      [] agent = "sales" -> SalesFinalizationAgent_tools

\* the transaction type a tool hands to create_transaction; "" for a tool
\* that records nothing
transaction_type(tool) ==
    CASE tool = "reorder_inventory_item" -> "stock_orders"
      [] tool = "sell_inventory_item" -> "sales"
      [] OTHER -> ""

\* create_transaction adds one row to the table
create_transaction(table, row) == Append(table, row)


(***************************************************************************)
(* State of one process_order_details call, and what outlasts it.          *)
(***************************************************************************)
VARIABLES
    request_with_date,   \* the argument
    pc,                  \* position in process_order_details
    order,               \* order_details["order"]
    request_date,        \* order_details["request_date"]
    i,                   \* index of the line the loop is at
    inventory_response,  \* last captured Inventory reply
    missing_items,       \* the local missing_items, bound or not
    quote_response,      \* reply of the Quoting Collaborator
    total_price,         \* parsed final_total_price
    bulk,                \* parsed bulk_discount_applied
    result,              \* the returned string
    exception,           \* the exception that left the function, if any
    calls,               \* the collaborator calls made so far, in order
    transactions,        \* the rows of the transaction table, in order
    history              \* the earlier requests: whether Sales was invoked

vars == <<request_with_date, pc, order, request_date, i, inventory_response,
          missing_items, quote_response, total_price, bulk, result,
          exception, calls, transactions, history>>

NoResult == [kind |-> "none"]

Call(agent, instruction, raised, reply) ==
    [agent |-> agent, instruction |-> instruction, raised |-> raised,
     reply |-> reply]

Init ==
    /\ request_with_date \in RequestTexts
    /\ pc = "start"
    /\ order = <<>>
    /\ request_date = ""
    /\ i = 1
    /\ inventory_response = ""
    /\ missing_items = [bound |-> FALSE, items |-> <<>>]
    /\ quote_response = PyStr("")
    /\ total_price = PyNone
    /\ bulk = PyNone
    /\ result = NoResult
    /\ exception = ""
    /\ calls = <<>>
    /\ transactions = <<>>
    /\ history = <<>>

\* the request being processed, counted from 1
request_no == Len(history) + 1

\* return <message>
Return(r) ==
    /\ pc' = "done"
    /\ result' = r

\* an exception leaves process_order_details
Raise(e) ==
    /\ pc' = "raised"
    /\ exception' = e
    /\ UNCHANGED result

\* lines 118-122
ExtractOrder ==
    /\ pc = "start"
    /\ order' = extract_order(request_with_date).order
    /\ request_date' = extract_order(request_with_date).request_date
    /\ pc' = IF order' = <<>> THEN "fallback" ELSE "validate"
    /\ UNCHANGED <<transactions, history>>
    /\ UNCHANGED <<request_with_date, i, inventory_response, missing_items,
                   quote_response, total_price, bulk, result, exception,
                   calls>>

FallbackInstruction ==
    [kind |-> "fallback", request |-> request_with_date]

\* lines 122-137: the open-ended Inventory call of an empty order, which is
\* not inside a try block
FallbackInventoryCall ==
    /\ pc = "fallback"
    /\ UNCHANGED <<transactions, history>>
    /\ \/ \E reply \in InventoryReplies :
            /\ inventory_response' = reply
            /\ calls' = Append(calls, Call("inventory", FallbackInstruction,
                                           FALSE, PyStr(reply)))
            /\ pc' = "missing"
            /\ UNCHANGED <<result, exception>>
       \/ /\ calls' = Append(calls, Call("inventory", FallbackInstruction,
                                         TRUE, PyNone))
          /\ Raise("Exception")
          /\ UNCHANGED inventory_response
    /\ UNCHANGED <<request_with_date, order, request_date, i, missing_items,
                   quote_response, total_price, bulk>>

\* lines 140-151: the catalog check of line i
ValidateLine ==
    /\ pc = "validate"
    /\ UNCHANGED <<transactions, history>>
    /\ IF CatalogMatch(order[i].name)
       THEN /\ pc' = "check"
            /\ UNCHANGED result
       ELSE Return([kind |-> "catalog_help", items |-> CatalogNames])
    /\ UNCHANGED <<request_with_date, order, request_date, i,
                   inventory_response, missing_items, quote_response,
                   total_price, bulk, exception, calls>>

LineInstruction(item) ==
    [kind |-> "line", product_type |-> item.type,
     quantity |-> item.quantity, product |-> item.name]

\* a loop that goes on to the next line whatever the reply says
AfterCheck_continue(response) ==
    /\ i' = i + 1
    /\ pc' = IF i = Len(order) THEN "missing" ELSE "validate"
    /\ UNCHANGED result

\* lines 181, 140: after the shortage scan of line i
AfterCheck(response) ==
    IF inventory_issue(response)
    THEN /\ Return([kind |-> "not_enough_stock",
                    quantity |-> order[i].quantity,
                    product |-> order[i].name])
         /\ UNCHANGED i
    ELSE /\ i' = i + 1
         /\ pc' = IF i = Len(order) THEN "missing" ELSE "validate"
         /\ UNCHANGED result

\* lines 153-181: the Inventory call for line i inside its try block, and
\* the shortage scan of the reply
InventoryCheck ==
    /\ pc = "check"
    /\ UNCHANGED <<transactions, history>>
    /\ \/ \E reply \in InventoryReplies :
            /\ inventory_response' = reply
            /\ calls' = Append(calls, Call("inventory",
                                           LineInstruction(order[i]),
                                           FALSE, PyStr(reply)))
            /\ AfterCheck(reply)
       \/ /\ inventory_response' = ""
          /\ calls' = Append(calls, Call("inventory",
                                         LineInstruction(order[i]),
                                         TRUE, PyNone))
          /\ AfterCheck("")
    /\ UNCHANGED <<request_with_date, order, request_date, missing_items,
                   quote_response, total_price, bulk, exception>>

\* lines 183-190
ParseMissing ==
    /\ pc = "missing"
    /\ UNCHANGED <<transactions, history>>
    /\ IF Contains(inventory_response, MissingMarker)
       THEN /\ missing_items' =
                  [bound |-> TRUE,
                   items |-> ParseMissingItems(inventory_response)]
            /\ IF missing_items'.items # <<>>
               THEN Return([kind |-> "not_in_catalog",
                            items |-> Join(", ", missing_items'.items)])
               ELSE /\ pc' = "quote"
                    /\ UNCHANGED result
       ELSE /\ pc' = "quote"
            /\ UNCHANGED <<missing_items, result>>
    /\ UNCHANGED <<request_with_date, order, request_date, i,
                   inventory_response, quote_response, total_price, bulk,
                   exception, calls>>

QuoteInstruction ==
    [missing |-> MissingText(missing_items),
     details |-> OrderDetail(order, request_with_date),
     search_terms |-> SplitFirst(request_with_date, DateMarker)]

\* a handler that logs the failure and goes on with the empty reply, as the
\* per-line Inventory handler does
QuoteFailed_swallowed ==
    /\ quote_response' = PyStr("")
    /\ pc' = "parse_quote"
    /\ UNCHANGED result

\* lines 230-232: the except block of the Quoting call
QuoteFailed ==
    /\ Return([kind |-> "quote_request_issue"])
    /\ UNCHANGED quote_response

\* lines 196-232: the instruction, and the Quoting call inside its try block
QuoteCall ==
    /\ pc = "quote"
    /\ UNCHANGED <<transactions, history>>
    /\ \/ \E reply \in QuoteReplies :
            /\ quote_response' = reply
            /\ calls' = Append(calls, Call("quote_management",
                                           QuoteInstruction, FALSE, reply))
            /\ pc' = "parse_quote"
            /\ UNCHANGED result
       \/ /\ calls' = Append(calls, Call("quote_management",
                                         QuoteInstruction, TRUE, PyNone))
          /\ QuoteFailed
    /\ UNCHANGED <<request_with_date, order, request_date, i,
                   inventory_response, missing_items, total_price, bulk,
                   exception>>

\* lines 239-240 and 244-245
TakeQuote(quote_data) ==
    /\ total_price' = DictGet(quote_data, "final_total_price", PyNum("0"))
    /\ bulk' = DictGet(quote_data, "bulk_discount_applied", PyBool(FALSE))
    /\ pc' = "sales"
    /\ UNCHANGED <<result, exception>>

\* a handler that goes on to Sales with the default quote
QuoteIssue_ignored ==
    /\ total_price' = PyNum("0")
    /\ bulk' = PyBool(FALSE)
    /\ pc' = "sales"
    /\ UNCHANGED <<result, exception>>

\* lines 248-250
QuoteIssue ==
    /\ Return([kind |-> "quote_issue"])
    /\ UNCHANGED <<total_price, bulk, exception>>

\* lines 234-250: only json.JSONDecodeError and TypeError are caught; .get
\* on a decoded value that is not a dict raises AttributeError
ParseQuote ==
    /\ pc = "parse_quote"
    /\ UNCHANGED <<transactions, history>>
    /\ IF quote_response.t = "dict" THEN TakeQuote(quote_response)
       ELSE IF quote_response.t = "str" THEN
            IF ~json_loads(quote_response.s).ok THEN QuoteIssue
            ELSE IF json_loads(quote_response.s).v.t = "dict"
                 THEN TakeQuote(json_loads(quote_response.s).v)
            ELSE /\ Raise("AttributeError")
                 /\ UNCHANGED <<total_price, bulk>>
       ELSE QuoteIssue
    /\ UNCHANGED <<request_with_date, order, request_date, i,
                   inventory_response, missing_items, quote_response, calls>>

SalesInstruction ==
    [details |-> OrderDetail(order, request_with_date),
     missing |-> MissingText(missing_items),
     total_price |-> Render(total_price),
     discount |-> DiscountWord(bulk)]

\* a result that wraps the Sales reply into a summary of its own
SalesResult_reworded(reply) ==
    [kind |-> "sales_reply", text |-> "Order summary: " \o reply]

\* line 271: return sales_order_response
SalesResult(reply) == [kind |-> "sales_reply", text |-> reply]

\* lines 252-271: the Sales call, which is not inside a try block
SalesCall ==
    /\ pc = "sales"
    /\ UNCHANGED <<transactions, history>>
    /\ \/ \E reply \in SalesReplies :
            /\ calls' = Append(calls, Call("sales", SalesInstruction,
                                           FALSE, PyStr(reply)))
            /\ Return(SalesResult(reply))
            /\ UNCHANGED exception
       \/ /\ calls' = Append(calls, Call("sales", SalesInstruction,
                                         TRUE, PyNone))
          /\ Raise("Exception")
    /\ UNCHANGED <<request_with_date, order, request_date, i,
                   inventory_response, missing_items, quote_response,
                   total_price, bulk>>

Next ==
    \/ ExtractOrder
    \/ FallbackInventoryCall
    \/ ValidateLine
    \/ InventoryCheck
    \/ ParseMissing
    \/ QuoteCall
    \/ ParseQuote
    \/ SalesCall

Spec == Init /\ [][Next]_vars

(***************************************************************************)
(* extract_order on its own, over a wider set of request texts.            *)
(***************************************************************************)
\* item lines of the documented form, with the OrderLine each stands for
ParseBullets ==
    {[qty |-> "5", unit |-> "sheets", name |-> "A4 paper",
      quantity |-> 5, type |-> "paper"],
     [qty |-> "120", unit |-> "table napkins", name |-> "ink",
      quantity |-> 120, type |-> "product"],
     [qty |-> "5", unit |-> "cards", name |-> "Glossy CARDSTOCK",
      quantity |-> 5, type |-> "paper"],
     [qty |-> "30", unit |-> "poster boards", name |-> "rolls of tape",
      quantity |-> 30, type |-> "product"],
     [qty |-> "7", unit |-> "reams", name |-> "Paper plates",
      quantity |-> 7, type |-> "paper"],
     [qty |-> "2", unit |-> "rolls", name |-> "Card boxes",
      quantity |-> 2, type |-> "product"],
     [qty |-> "9", unit |-> "packets", name |-> "Cardstock",
      quantity |-> 9, type |-> "paper"]}

BulletText(b) == "- " \o b.qty \o " " \o b.unit \o " of " \o b.name

ParseSegments ==
    {BulletText(b) : b \in ParseBullets}
    \cup {"please hurry", "- 5 boxes of ink"}

ParseHeaders == {"", "Order:\n"}

\* nothing, a trailing annotation, an annotation followed by a further item
\* line, an annotation without a date, and one of each
ParseSuffixes ==
    {"",
     " (Date of request: 2025-04-01)",
     "\n(Date of request:2025-04-01)\n- 5 sheets of ink",
     " (Date of request: soon)",
     " (Date of request: soon) (Date of request: 2025-04-01)"}

ParseRequests ==
    {header \o Join("\n", segs) \o suffix :
        header \in ParseHeaders,
        segs \in UNION {[1..n -> ParseSegments] : n \in 0..MaxLines},
        suffix \in ParseSuffixes}

InitParse ==
    /\ request_with_date \in ParseRequests
    /\ pc = "start"
    /\ order = <<>>
    /\ request_date = ""
    /\ i = 1
    /\ inventory_response = ""
    /\ missing_items = [bound |-> FALSE, items |-> <<>>]
    /\ quote_response = PyStr("")
    /\ total_price = PyNone
    /\ bulk = PyNone
    /\ result = NoResult
    /\ exception = ""
    /\ calls = <<>>
    /\ transactions = <<>>
    /\ history = <<>>

NextParse == ExtractOrder

SpecParse == InitParse /\ [][NextParse]_vars

(***************************************************************************)
(* A sequence of requests to one Orchestrator, with the tool calls the     *)
(* collaborators make while the orchestrator waits in their run().  Spec   *)
(* and SpecParse follow the orchestrator alone and leave the transaction   *)
(* table aside; here it is followed.                                       *)
(***************************************************************************)
\* a text without item lines, and an order whose second line is unknown
LedgerRequests ==
    {"please hurry", "- 5 sheets of A4 paper\n- 7 packets of ink"}

\* the collaborator whose run() the orchestrator is in, "" outside a run
Running ==
    CASE pc \in {"fallback", "check"} -> "inventory"
      [] pc = "quote" -> "quote_management"
      [] pc = "sales" -> "sales"
      [] OTHER -> ""

\* the row a recording tool hands to create_transaction, with the tool, the
\* agent and the request it was written for
Row(tool, agent) ==
    [transaction_type |-> transaction_type(tool), tool |-> tool,
     agent |-> agent, request |-> request_no]

\* the running collaborator calls one of the tools it was constructed with
ToolCall ==
    /\ Running # ""
    /\ Len(transactions) < MaxRows
    /\ \E tool \in AgentTools(Running) :
          transactions' =
              IF transaction_type(tool) = "" THEN transactions
              ELSE create_transaction(transactions, Row(tool, Running))
    /\ UNCHANGED <<request_with_date, pc, order, request_date, i,
                   inventory_response, missing_items, quote_response,
                   total_price, bulk, result, exception, calls, history>>

\* process_order_details is called again on the same Orchestrator: every
\* local starts afresh, the transaction table stays
NewRequest ==
    /\ pc \in {"done", "raised"}
    /\ request_no < MaxRequests
    /\ history' = Append(history,
                         [sales_invoked |->
                              \E k \in 1..Len(calls) :
                                  calls[k].agent = "sales"])
    /\ request_with_date' \in LedgerRequests
    /\ pc' = "start"
    /\ order' = <<>>
    /\ request_date' = ""
    /\ i' = 1
    /\ inventory_response' = ""
    /\ missing_items' = [bound |-> FALSE, items |-> <<>>]
    /\ quote_response' = PyStr("")
    /\ total_price' = PyNone
    /\ bulk' = PyNone
    /\ result' = NoResult
    /\ exception' = ""
    /\ calls' = <<>>
    /\ UNCHANGED transactions

InitLedger ==
    /\ request_with_date \in LedgerRequests
    /\ pc = "start"
    /\ order = <<>>
    /\ request_date = ""
    /\ i = 1
    /\ inventory_response = ""
    /\ missing_items = [bound |-> FALSE, items |-> <<>>]
    /\ quote_response = PyStr("")
    /\ total_price = PyNone
    /\ bulk = PyNone
    /\ result = NoResult
    /\ exception = ""
    /\ calls = <<>>
    /\ transactions = <<>>
    /\ history = <<>>

NextLedger ==
    \/ ExtractOrder
    \/ FallbackInventoryCall
    \/ ValidateLine
    \/ InventoryCheck
    \/ ParseMissing
    \/ QuoteCall
    \/ ParseQuote
    \/ SalesCall
    \/ ToolCall
    \/ NewRequest

SpecLedger == InitLedger /\ [][NextLedger]_vars

(***************************************************************************)
(* Properties.                                                             *)
(***************************************************************************)
Invoked(agent) == \E k \in 1..Len(calls) : calls[k].agent = agent

CountCalls(agent) == Cardinality({k \in 1..Len(calls) : calls[k].agent = agent})

Finished == pc \in {"done", "raised"}

\* the order has been parsed and some line of it names no catalog entry
SomeLineUnknown ==
    /\ pc # "start"
    /\ \E k \in 1..Len(order) : ~CatalogMatch(order[k].name)

\* call k is a per-line Inventory check that returned a reply
LineReply(k) ==
    /\ calls[k].agent = "inventory"
    /\ calls[k].instruction.kind = "line"
    /\ ~calls[k].raised

\* call k is an Inventory call (per-line or fallback) that returned a reply
InventoryReply(k) ==
    /\ calls[k].agent = "inventory"
    /\ ~calls[k].raised

\* the text holds a shortage phrase in any mix of capitals and small letters
HasShortagePhrase(text) ==
    LET small == Lower(text)
    IN  \E phrase \in {"not enough", "insufficient", "low", "out of",
                       "don't have"} :
            \E j \in 1..Len(small) : StartsWithAt(small, phrase, j)

\* the flag of a Quoting reply that is a mapping or the JSON text of one
ReplyFlag(reply) ==
    DictGet(IF reply.t = "dict" THEN reply ELSE json_loads(reply.s).v,
            "bulk_discount_applied", PyBool(FALSE))

\* the reply is a native mapping or a string that encodes a JSON object
IsObjectReply(reply) ==
    \/ reply.t = "dict"
    \/ /\ reply.t = "str"
       /\ json_loads(reply.s).ok
       /\ json_loads(reply.s).v.t = "dict"

\* C1: whenever Sales is invoked, the instruction says "a" bulk discount
\* when the Quoting reply's bulk_discount_applied is true and "no" bulk
\* discount when it is false or absent.
C1_DiscountWordingAgreesWithFlag ==
    \A k \in 1..Len(calls) :
        calls[k].agent = "sales" =>
            calls[k].instruction.discount =
                (IF ReplyFlag(quote_response) = PyBool(TRUE) THEN "a"
                 ELSE "no")

\* C2: process_order_details never lets an exception escape to its caller,
\* whatever the collaborators reply or raise.
C2_NoExceptionEscapes == pc # "raised"

\* C3: if any line of the parsed order names no catalog entry, no
\* collaborator is invoked at any point of the call.
C3_UnknownLineInvokesNobody == SomeLineUnknown => calls = <<>>

\* C4: if any line of the parsed order names no catalog entry, the returned
\* value is the catalog-help message listing all catalog names.
C4_UnknownLineReturnsCatalogHelp ==
    (SomeLineUnknown /\ pc = "done") =>
        result = [kind |-> "catalog_help", items |-> "A4 paper, Cardstock"]

\* C5: an Inventory reply to a line's check that holds a shortage phrase
\* (case-insensitively) makes the call return the not-enough-in-stock
\* apology with that line's quantity and name, and Quoting and Sales are
\* never invoked.
C5_ShortageAborts ==
    \A k \in 1..Len(calls) :
        (LineReply(k) /\ HasShortagePhrase(calls[k].reply.s)) =>
            /\ pc = "done"
            /\ result = [kind |-> "not_enough_stock",
                         quantity |-> calls[k].instruction.quantity,
                         product |-> calls[k].instruction.product]
            /\ ~Invoked("quote_management")
            /\ ~Invoked("sales")

\* a second line's check was answered in capitals with a shortage phrase
C5_Witness ==
    /\ Len(calls) = 2
    /\ LineReply(2)
    /\ Contains(calls[2].reply.s, "LOW")
    /\ pc = "done"

\* C6: an Inventory reply received during the call (for any line, or for
\* the fallback instruction) that holds "MISSING ITEMS: a, b" makes the call
\* return the not-available-in-catalog message listing exactly a, b, and
\* Quoting and Sales are never invoked.
C6_MissingItemsAbort ==
    \A k \in 1..Len(calls) :
        (InventoryReply(k) /\ Contains(calls[k].reply.s, "MISSING ITEMS: a, b"))
        =>  /\ ~Invoked("quote_management")
            /\ ~Invoked("sales")
            /\ Finished =>
                 result = [kind |-> "not_in_catalog", items |-> "a, b"]

\* C7: a Quoting reply that is neither a native mapping nor a string that
\* encodes a JSON object makes the call return the generic
\* issue-processing-your-quote apology, and Sales is never invoked.
C7_OddQuoteReplyReturnsApology ==
    \A k \in 1..Len(calls) :
        (/\ calls[k].agent = "quote_management"
         /\ ~calls[k].raised
         /\ ~IsObjectReply(calls[k].reply)
         /\ Finished)
        =>  /\ pc = "done"
            /\ result = [kind |-> "quote_issue"]
            /\ ~Invoked("sales")

\* C8: when the Quoting call raises, the call returns the quote-request
\* apology, nothing is invoked after it (no Sales, no second Quoting call).
C8_QuoteFailureAborts ==
    \A k \in 1..Len(calls) :
        (calls[k].agent = "quote_management" /\ calls[k].raised) =>
            /\ pc = "done"
            /\ result = [kind |-> "quote_request_issue"]
            /\ k = Len(calls)
            /\ CountCalls("quote_management") = 1
            /\ ~Invoked("sales")

\* the Quoting call raised after the lines of a two-line order were checked
C8_Witness ==
    /\ Len(calls) = 3
    /\ calls[3].agent = "quote_management"
    /\ calls[3].raised
    /\ pc = "done"

\* C9: a failure raised by any Inventory call (per-line or fallback) is
\* caught at the call site: no exception leaves the function there and the
\* reply counts as empty.
C9_InventoryFailureCaught ==
    (/\ calls # <<>>
     /\ calls[Len(calls)].agent = "inventory"
     /\ calls[Len(calls)].raised)
    =>  /\ pc # "raised"
        /\ inventory_response = ""

\* the entries a reply lists after its MISSING ITEMS: marker
ListsMissingItems(text) ==
    /\ Contains(text, "MISSING ITEMS:")
    /\ \E j \in 1..Len(SplitSecond(text, "MISSING ITEMS:")) :
          ~IsSpace(Ch(SplitSecond(text, "MISSING ITEMS:"), j))
          /\ Ch(SplitSecond(text, "MISSING ITEMS:"), j) # ","

\* C10: with zero parsed lines the Inventory Collaborator is invoked exactly
\* once, with the raw request text, no per-line call and no catalog
\* validation take place, and unless the reply lists missing items Quoting
\* is invoked with the date-stripped request text as the order detail; the
\* only failure message of the inventory stage is the missing-items one.
C10_EmptyOrderFallback ==
    (pc # "start" /\ order = <<>>) =>
        /\ pc = "fallback" => calls = <<>>
        /\ pc # "fallback" =>
            /\ CountCalls("inventory") = 1
            /\ calls[1].agent = "inventory"
            /\ calls[1].instruction =
                   [kind |-> "fallback", request |-> request_with_date]
        /\ result.kind \notin {"catalog_help", "not_enough_stock"}
        /\ result.kind = "not_in_catalog" =>
               ListsMissingItems(calls[1].reply.s)
        /\ (/\ pc \notin {"fallback", "missing", "quote"}
            /\ ~calls[1].raised
            /\ ~ListsMissingItems(calls[1].reply.s))
           =>  /\ Len(calls) >= 2
               /\ calls[2].agent = "quote_management"
               /\ calls[2].instruction.details =
                      SplitFirst(request_with_date, "(Date of request:")

\* a dated request without item lines reached the Quoting Collaborator
C10_Witness ==
    /\ pc # "start"
    /\ order = <<>>
    /\ Contains(request_with_date, "(Date of request:")
    /\ Len(calls) >= 2
    /\ calls[2].agent = "quote_management"
    /\ calls[2].instruction.details = "please hurry "

\* every line of the parsed order names a catalog entry
AllLinesKnown == \A k \in 1..Len(order) : CatalogMatch(order[k].name)

\* no reply to a line's check holds a shortage phrase
NoShortageReply ==
    \A k \in 1..Len(calls) :
        LineReply(k) => ~HasShortagePhrase(calls[k].reply.s)

\* the Quoting Collaborator returned a mapping or the JSON text of one
WellFormedQuote ==
    \E k \in 1..Len(calls) :
        /\ calls[k].agent = "quote_management"
        /\ ~calls[k].raised
        /\ IsObjectReply(calls[k].reply)

\* C11: on the success path (every line validated, no shortage phrase, no
\* missing items, a well-formed quote) Sales is invoked exactly once, as the
\* last call, and the reply it returns is the result, unchanged.
C11_SalesReplyReturnedVerbatim ==
    /\ \A k \in 1..Len(calls) :
          calls[k].agent = "sales" =>
              /\ k = Len(calls)
              /\ CountCalls("sales") = 1
              /\ ~calls[k].raised =>
                    /\ pc = "done"
                    /\ result = [kind |-> "sales_reply",
                                 text |-> calls[k].reply.s]
    /\ (/\ Finished
        /\ AllLinesKnown
        /\ NoShortageReply
        /\ ~ListsMissingItems(inventory_response)
        /\ WellFormedQuote)
       => CountCalls("sales") = 1

\* a two-line order went through and the Sales reply came back
C11_Witness ==
    /\ pc = "done"
    /\ Len(order) = 2
    /\ Len(calls) = 4
    /\ calls[4].agent = "sales"
    /\ result = [kind |-> "sales_reply", text |-> "Delivery on 2025-04-08."]

\* the mapping a well-formed Quoting reply denotes
ReplyData(reply) ==
    IF reply.t = "dict" THEN reply ELSE json_loads(reply.s).v

\* C12: the price and the discount flag handed to Sales are those of the
\* Quoting reply (native or JSON text): final_total_price or 0 when absent,
\* bulk_discount_applied or false when absent; a reply without both keys is
\* accepted.
C12_SalesGetsQuotedPriceAndFlag ==
    /\ \A k \in 1..Len(calls) :
          calls[k].agent = "sales" =>
              /\ calls[k].instruction.total_price =
                     Render(DictGet(ReplyData(quote_response),
                                    "final_total_price", PyNum("0")))
              /\ (calls[k].instruction.discount = "a") <=>
                     (DictGet(ReplyData(quote_response),
                              "bulk_discount_applied", PyBool(FALSE))
                      = PyBool(TRUE))
    /\ (IsObjectReply(quote_response) /\ pc = "done") =>
           result.kind # "quote_issue"

BulletSeqs == UNION {[1..n -> ParseBullets] : n \in 0..MaxLines}

\* a bullet list: an optional heading, one item line per bullet and an
\* optional trailing date annotation
BulletList(header, bs, suffix) ==
    header \o Join("\n", [k \in 1..Len(bs) |-> BulletText(bs[k])]) \o suffix

\* C13: from a well-formed bullet list extract_order returns one OrderLine
\* per bullet, in bullet order, with the bullet's quantity as an integer,
\* its name, and type paper exactly for names holding "paper" or
\* "cardstock" in any capitalisation.
C13_OneOrderLinePerBullet ==
    pc # "start" =>
        \A bs \in BulletSeqs :
            \A header \in {"", "Order:\n"} :
                \A suffix \in {"", " (Date of request: 2025-04-01)"} :
                    request_with_date = BulletList(header, bs, suffix) =>
                        order = [k \in 1..Len(bs) |->
                                    [quantity |-> bs[k].quantity,
                                     name |-> bs[k].name,
                                     type |-> bs[k].type]]

\* a dated two-bullet list was parsed into a product and a paper line
C13_Witness ==
    /\ pc # "start"
    /\ request_with_date =
         "- 120 table napkins of ink\n- 5 cards of Glossy CARDSTOCK"
         \o " (Date of request: 2025-04-01)"
    /\ order = <<[quantity |-> 120, name |-> "ink", type |-> "product"],
                 [quantity |-> 5, name |-> "Glossy CARDSTOCK",
                  type |-> "paper"]>>

\* the text holds an annotation (Date of request: YYYY-MM-DD)
HasDateAnnotation(text) == \E j \in 1..Len(text) : DateMatchAt(text, j) # 0

\* where the first such annotation starts
AnnotationStart(text) ==
    MinOf({j \in 1..Len(text) : DateMatchAt(text, j) # 0})

\* the OrderLines of the item lines found in a text
LinesOf(text) ==
    LET found == FindAllItems(text, 1)
    IN  [k \in 1..Len(found) |->
            [quantity |-> ToInt(found[k].quantity, Len(found[k].quantity)),
             name |-> Strip(found[k].description),
             type |-> item_type(found[k].description)]]

\* C14 as stated: without a (Date of request: YYYY-MM-DD) annotation
\* request_date is "" and the item lines of the whole text are scanned; with
\* one, request_date is its date and only the text before it is scanned.
C14_WholeTextScannedWithoutDate ==
    pc # "start" =>
        IF HasDateAnnotation(request_with_date)
        THEN /\ request_date =
                    SubSeq(request_with_date,
                           DateMatchAt(request_with_date,
                                       AnnotationStart(request_with_date)),
                           DateMatchAt(request_with_date,
                                       AnnotationStart(request_with_date)) + 9)
             /\ order = LinesOf(SubSeq(request_with_date, 1,
                                 AnnotationStart(request_with_date) - 1))
        ELSE /\ request_date = ""
             /\ order = LinesOf(request_with_date)

\* the text before the first "(Date of request:", followed by a date or not
BeforeDatePrefix(text) ==
    LET P == {j \in 1..Len(text) : StartsWithAt(text, "(Date of request:", j)}
    IN  IF P = {} THEN text ELSE SubSeq(text, 1, MinOf(P) - 1)

\* C14 as amended: request_date is the date of the first well-formed
\* annotation, or "" without one; the item lines are scanned in the text
\* before the first "(Date of request:", whether a date follows it or not,
\* and in the whole text only when that prefix does not occur.
C14_TextScannedBeforeDatePrefix ==
    pc # "start" =>
        /\ request_date =
              (IF HasDateAnnotation(request_with_date)
               THEN SubSeq(request_with_date,
                           DateMatchAt(request_with_date,
                                       AnnotationStart(request_with_date)),
                           DateMatchAt(request_with_date,
                                       AnnotationStart(request_with_date)) + 9)
               ELSE "")
        /\ order = LinesOf(BeforeDatePrefix(request_with_date))

\* an item line followed by an annotation without a date was parsed
C14_Witness ==
    /\ pc # "start"
    /\ request_with_date = "- 5 sheets of A4 paper (Date of request: soon)"
    /\ request_date = ""
    /\ order = <<[quantity |-> 5, name |-> "A4 paper", type |-> "paper"]>>

\* the stage a collaborator belongs to
Stage(agent) ==
    CASE agent = "inventory" -> 1
      [] agent = "quote_management" -> 2
      [] agent = "sales" -> 3

\* C15: the collaborator calls of one process_order_details call are
\* ordered: Inventory calls first, then at most one Quoting call, then at
\* most one Sales call, Sales only after a Quoting reply that could be
\* interpreted, and the k-th Inventory call is the check of the k-th line.
C15_CallsStrictlyOrdered ==
    /\ \A j \in 1..Len(calls) : \A k \in 1..Len(calls) :
          j < k => Stage(calls[j].agent) <= Stage(calls[k].agent)
    /\ CountCalls("quote_management") <= 1
    /\ CountCalls("sales") <= 1
    /\ Invoked("sales") => WellFormedQuote
    /\ \A k \in 1..Len(calls) :
          calls[k].agent = "inventory" =>
              IF order = <<>>
              THEN k = 1 /\ calls[k].instruction.kind = "fallback"
              ELSE /\ k <= Len(order)
                   /\ calls[k].instruction =
                          [kind |-> "line",
                           product_type |-> order[k].type,
                           quantity |-> order[k].quantity,
                           product |-> order[k].name]

\* two Inventory checks, the Quoting call and the Sales call, in this order
C15_Witness ==
    /\ Len(calls) = 4
    /\ calls[1].agent = "inventory"
    /\ calls[2].agent = "inventory"
    /\ calls[3].agent = "quote_management"
    /\ calls[4].agent = "sales"
    /\ order[1] # order[2]

\* C16: the lines are handled in input order and the first line that aborts
\* (unknown name, or shortage phrase in its Inventory reply) halts the
\* request: no Inventory call is made for a later line, and Quoting and
\* Sales are never invoked.
C16_FirstAbortingLineHalts ==
    pc # "start" =>
        \A k \in 1..Len(order) :
            /\ ~CatalogMatch(order[k].name) =>
                  /\ Len(calls) < k
                  /\ \A j \in 1..Len(calls) : calls[j].agent = "inventory"
            /\ (/\ k <= Len(calls)
                /\ LineReply(k)
                /\ HasShortagePhrase(calls[k].reply.s)) =>
                  /\ Len(calls) = k
                  /\ \A j \in 1..k : calls[j].agent = "inventory"
                  /\ pc = "done"
                  /\ result.kind = "not_enough_stock"

\* the first of two lines ran short and the second was never checked
C16_Witness ==
    /\ pc = "done"
    /\ Len(order) = 2
    /\ Len(calls) = 1
    /\ LineReply(1)
    /\ HasShortagePhrase(calls[1].reply.s)
    /\ result.kind = "not_enough_stock"

\* the Inventory calls made so far
InventoryCalls == {k \in 1..Len(calls) : calls[k].agent = "inventory"}

\* the reply captured from the latest Inventory call: its text, or the empty
\* text when the call raised
LastCapturedReply ==
    LET last == CHOOSE m \in InventoryCalls : \A k \in InventoryCalls : k <= m
    IN  IF calls[last].raised THEN "" ELSE calls[last].reply.s

\* the fallback Inventory call raised, which ends the call at once
FallbackRaised ==
    /\ calls # <<>>
    /\ calls[1].instruction.kind = "fallback"
    /\ calls[1].raised

\* C17: the missing-items scan reads the last captured Inventory reply only:
\* Quoting is invoked exactly when every line was validated, no per-line
\* reply held a shortage phrase and the last captured reply has no
\* MISSING ITEMS: marker followed by a non-empty entry.
C17_QuotingIffLastReplyClean ==
    /\ Invoked("quote_management") =>
          /\ AllLinesKnown
          /\ NoShortageReply
          /\ ~ListsMissingItems(LastCapturedReply)
    /\ (/\ Finished
        /\ ~FallbackRaised
        /\ AllLinesKnown
        /\ NoShortageReply
        /\ ~ListsMissingItems(LastCapturedReply))
       => Invoked("quote_management")

\* the first reply listed missing items, the last one had a marker with
\* empty entries only, and Quoting was invoked
C17_Witness ==
    /\ Len(order) = 2
    /\ Len(calls) >= 3
    /\ ListsMissingItems(calls[1].reply.s)
    /\ calls[2].reply.s = "MISSING ITEMS: , "
    /\ calls[3].agent = "quote_management"

\* C18: every process_order_details call finishes with a summary or an
\* explicit abort message, after at most one Inventory call per parsed line
\* (exactly one for an order without lines), at most one Quoting call and
\* at most one Sales call.
C18_EndsWithMessageWithinCallBounds ==
    /\ CountCalls("inventory") <= (IF order = <<>> THEN 1 ELSE Len(order))
    /\ CountCalls("quote_management") <= 1
    /\ CountCalls("sales") <= 1
    /\ Finished =>
          /\ pc = "done"
          /\ result.kind # "none"
          /\ order = <<>> => CountCalls("inventory") = 1

\* C20: whenever Quoting or Sales is invoked the missing-item list in the
\* instruction is empty: it reads "None" when the last captured Inventory
\* reply had no MISSING ITEMS: marker (the local was never bound) and is the
\* empty list when the marker had no entries, in the per-line path and in
\* the fallback path alike.
C20_NoMissingItemsDownstream ==
    \A k \in 1..Len(calls) :
        calls[k].agent \in {"quote_management", "sales"} =>
            /\ calls[k].instruction.missing \in {"None", ""}
            /\ (calls[k].instruction.missing = "None") <=>
                   ~Contains(LastCapturedReply, "MISSING ITEMS:")
            /\ ~ListsMissingItems(LastCapturedReply)

\* an order without lines whose fallback reply had a marker without entries
\* reached Sales, and an unmarked reply is rendered as None
C20_Witness ==
    /\ order = <<>>
    /\ Len(calls) = 3
    /\ calls[1].reply.s = "MISSING ITEMS: , "
    /\ calls[2].instruction.missing = ""
    /\ calls[3].agent = "sales"
    /\ calls[3].instruction.missing = ""

\* whether Sales was invoked, or is being invoked, for request n
SalesInvokedFor(n) ==
    IF n = request_no THEN pc = "sales" \/ Invoked("sales")
    ELSE history[n].sales_invoked

Rows(kind) ==
    {k \in 1..Len(transactions) : transactions[k].transaction_type = kind}

====
